---- MODULE Spec2Model ----
(***************************************************************************)
(* Model of the SQS query-protocol client in src/sqs (sqs.go, aws.go).     *)
(*                                                                         *)
(* Text is modelled as a sequence of tokens.  A token is either a single   *)
(* character that the escaping rules treat specially (" ", "+", "%", ":",  *)
(* "/", "=", "&", a hex digit) or a word made of unreserved characters     *)
(* only ("SendMessage", "2012-11-05"), which every escaping rule leaves    *)
(* untouched.  The Go empty string is the empty sequence.                  *)
(***************************************************************************)
EXTENDS Integers, Sequences, FiniteSets, TLC

\* Bounds of the model.
MaxLen == 2        \* longest message text, in characters
MaxAttrs == 2      \* most queue attributes handed to CreateQueue

-----------------------------------------------------------------------------
(* net/url: percent-encoding                                               *)

HexDigits == {"0","1","2","3","4","5","6","7","8","9",
              "A","B","C","D","E","F","a","b","c","d","e","f"}

ishex(t) == t \in HexDigits

\* unhex(c) < 8, the test url.unescape applies to the first digit in a host
LowHex(t) == t \in {"0","1","2","3","4","5","6","7"}

\* the byte written as the two hex digits a, b
HexByte(a, b) ==
    CASE a = "2" /\ b = "0" -> " "
      [] a = "2" /\ b = "B" -> "+"
      [] a = "2" /\ b = "5" -> "%"
      [] a = "2" /\ b = "F" -> "/"
      [] a = "2" /\ b = "6" -> "&"
      [] a = "3" /\ b = "A" -> ":"
      [] a = "3" /\ b = "D" -> "="
      [] OTHER -> "\\x" \o a \o b

\* url.shouldEscape + url.escape for one character; mode is "query"
\* (QueryEscape), "host" or "path" (URL.String)
EscapeToken(t, mode) ==
    CASE t = " " -> IF mode = "query" THEN <<"+">> ELSE <<"%","2","0">>
      [] t = "%" -> <<"%","2","5">>
      [] t = "+" -> IF mode = "query" THEN <<"%","2","B">> ELSE <<t>>
      [] t = "/" -> IF mode = "path" THEN <<t>> ELSE <<"%","2","F">>
      [] t = ":" -> IF mode = "query" THEN <<"%","3","A">> ELSE <<t>>
      [] t = "=" -> IF mode = "query" THEN <<"%","3","D">> ELSE <<t>>
      [] t = "&" -> IF mode = "query" THEN <<"%","2","6">> ELSE <<t>>
      [] OTHER -> <<t>>

RECURSIVE escape(_, _)
escape(s, mode) ==
    IF s = <<>> THEN <<>>
    ELSE EscapeToken(Head(s), mode) \o escape(Tail(s), mode)

QueryEscape(s) == escape(s, "query")

\* url.unescape: [ok, s]; on a malformed escape the result is "" and an error
RECURSIVE unescape(_, _)
unescape(s, mode) ==
    IF s = <<>> THEN [ok |-> TRUE, s |-> <<>>]
    ELSE IF Head(s) = "%" THEN
        IF Len(s) < 3 \/ ~ishex(s[2]) \/ ~ishex(s[3])
        THEN [ok |-> FALSE, s |-> <<>>]
        ELSE IF mode = "host" /\ LowHex(s[2]) /\ ~(s[2] = "2" /\ s[3] = "5")
        THEN [ok |-> FALSE, s |-> <<>>]
        ELSE LET r == unescape(SubSeq(s, 4, Len(s)), mode)
             IN  IF r.ok THEN [ok |-> TRUE, s |-> <<HexByte(s[2], s[3])>> \o r.s]
                 ELSE r
    ELSE LET r == unescape(Tail(s), mode)
             c == IF mode = "query" /\ Head(s) = "+" THEN " " ELSE Head(s)
         IN  IF r.ok THEN [ok |-> TRUE, s |-> <<c>> \o r.s] ELSE r

QueryUnescape(s) == unescape(s, "query")

-----------------------------------------------------------------------------
(* net/url: URL.String and url.Parse.  A URL string is kept as its three   *)
(* segments, each in its escaped form.                                     *)

URLString(u) ==
    [scheme |-> u.Scheme, host |-> escape(u.Host, "host"), path |-> escape(u.Path, "path")]

\* url.Parse: [ok, u]; u is nil (absent) when parsing fails
URLParse(uri) ==
    LET h == unescape(uri.host, "host")
        p == unescape(uri.path, "path")
    IN  IF h.ok /\ p.ok
        THEN [ok |-> TRUE, u |-> [Scheme |-> uri.scheme, Host |-> h.s, Path |-> p.s]]
        ELSE [ok |-> FALSE]

-----------------------------------------------------------------------------
(* net/url: url.Values.  The map is kept as the sequence of its entries in *)
(* insertion order, so that a dependence on that order would show.         *)

HasKey(uv, k) == \E i \in 1..Len(uv) : uv[i].k = k

Get(uv, k) ==
    IF HasKey(uv, k) THEN uv[CHOOSE i \in 1..Len(uv) : uv[i].k = k].v ELSE <<>>

Set(uv, k, v) ==
    IF HasKey(uv, k)
    THEN [i \in 1..Len(uv) |-> IF uv[i].k = k THEN [k |-> k, v |-> v] ELSE uv[i]]
    ELSE Append(uv, [k |-> k, v |-> v])

Keys(uv) == [i \in 1..Len(uv) |-> uv[i].k]

RECURSIVE AttrKeys(_, _)
AttrKeys(i, n) ==
    IF i > n THEN <<>>
    ELSE <<"Attribute." \o ToString(i) \o ".Name", "Attribute." \o ToString(i) \o ".Value">>
         \o AttrKeys(i + 1, n)

\* every parameter name of the protocol, in the byte order sort.Strings uses
KeyOrder ==
    <<"AWSAccessKeyId", "Action">> \o AttrKeys(0, MaxAttrs + 2)
    \o <<"MessageBody", "QueueName", "QueueNamePrefix", "ReceiptHandle", "Signature",
         "SignatureMethod", "SignatureVersion", "Timestamp", "Version">>

KeyRanks ==
    [k \in {KeyOrder[i] : i \in 1..Len(KeyOrder)} |->
        CHOOSE i \in 1..Len(KeyOrder) : KeyOrder[i] = k]

KeyRank(k) == KeyRanks[k]

KeyLess(a, b) == KeyRank(a) < KeyRank(b)

RECURSIVE InsertSorted(_, _)
InsertSorted(k, s) ==
    IF s = <<>> THEN <<k>>
    ELSE IF KeyLess(k, Head(s)) THEN <<k>> \o s
    ELSE <<Head(s)>> \o InsertSorted(k, Tail(s))

RECURSIVE SortStrings(_)
SortStrings(s) ==
    IF s = <<>> THEN <<>> ELSE InsertSorted(Head(s), SortStrings(Tail(s)))

RECURSIVE JoinPairs(_, _)
JoinPairs(uv, keys) ==
    IF keys = <<>> THEN <<>>
    ELSE QueryEscape(<<Head(keys)>>) \o <<"=">> \o QueryEscape(Get(uv, Head(keys)))
         \o (IF Len(keys) > 1 THEN <<"&">> ELSE <<>>)
         \o JoinPairs(uv, Tail(keys))

EncodeUnsorted(uv) == JoinPairs(uv, Keys(uv))

\* Values.Encode: "k=v&k=v..." with both sides query-escaped, sorted by key
Encode(uv) == JoinPairs(uv, SortStrings(Keys(uv)))

-----------------------------------------------------------------------------
(* aws.go: the signer                                                      *)

\* strings.Join([]string{method, u.Host, u.Path, uv.Encode()}, "\n")
SigPayload(u, method, uv) ==
    <<method, "\n">> \o u.Host \o <<"\n">> \o u.Path \o <<"\n">> \o Encode(uv)

\* HMAC-SHA256 under secret, base64-encoded: modelled as a collision-free term
\* over (secret, payload), kept as one word
HmacBase64(secret, payload) == <<"hmac" \o ToString(<<secret, payload>>)>>

GenerateSignature(sqsURI, method, secret, uv) ==
    LET p == URLParse(sqsURI)
    IN  IF ~p.ok THEN <<>> ELSE HmacBase64(secret, SigPayload(p.u, method, uv))

-----------------------------------------------------------------------------
(* sqs.go: SQSRequest and the two endpoints                                *)

\* region identifiers handed in by the command line, which only checks that
\* they are set: one that yields a host url.Parse accepts, one that does not
Regions == {<<"us-east-1">>, <<"us", " ", "east">>}

SQSRequest ==
    [RegionId : Regions, UUID : {<<"123456789012">>}, QueueName : {<<"jobs">>},
     AWSAccessKey : {<<"AKID">>}, AWSSecret : {<<"s3cr3t">>}]

QueueURL_(s) ==
    [Scheme |-> "https",
     Host   |-> <<"sqs.">> \o s.RegionId \o <<".amazonaws.com">>,
     Path   |-> <<"/">> \o s.UUID \o <<"/">> \o s.QueueName \o <<"/">>]

generateSQSQueueURI(s) == URLString(QueueURL_(s))

\* u, _ := url.Parse(urlStr); u.Path = "/": a nil u makes the assignment panic
generateSQSURI(s) ==
    LET p == URLParse(generateSQSQueueURI(s))
    IN  IF ~p.ok THEN [panic |-> TRUE]
        ELSE [panic |-> FALSE, uri |-> URLString([p.u EXCEPT !.Path = <<"/">>])]

-----------------------------------------------------------------------------
(* sqs.go: makeSQSRequest, up to the call of client.Do                     *)

\* time.Now().Format(time.RFC3339)
Times == {<<"2013-05-01T10", ":", "00", ":", "00Z">>}

Reverse(q) == [i \in 1..Len(q) |-> q[Len(q) + 1 - i]]

Rotations(q) ==
    IF q = <<>> THEN {<<>>}
    ELSE {[i \in 1..Len(q) |-> q[((i + r - 1) % Len(q)) + 1]] : r \in 0..(Len(q) - 1)}

RECURSIVE SetToSeq(_)
SetToSeq(S) ==
    IF S = {} THEN <<>> ELSE LET x == CHOOSE y \in S : TRUE IN <<x>> \o SetToSeq(S \ {x})

\* the orders in which "for k, v := range m" may visit the keys S of a map: Go
\* leaves the order unspecified; the model draws from the rotations of one
\* listing and of its reverse (every order, for up to three keys)
MapRange(S) == Rotations(SetToSeq(S)) \cup Rotations(Reverse(SetToSeq(S)))

RECURSIVE SetAll(_, _, _)
SetAll(uv, params, ord) ==
    IF ord = <<>> THEN uv
    ELSE SetAll(Set(uv, Head(ord), params[Head(ord)]), params, Tail(ord))

\* lines 77-86: the fixed fields, then the caller's parameters over them
MergedValues(s, params, ord, now) ==
    SetAll(<<[k |-> "AWSAccessKeyId",   v |-> s.AWSAccessKey],
             [k |-> "SignatureVersion", v |-> <<"2">>],
             [k |-> "SignatureMethod",  v |-> <<"HmacSHA256">>],
             [k |-> "Version",          v |-> <<"2012-11-05">>],
             [k |-> "Timestamp",        v |-> now]>>, params, ord)

NoReq == [nil |-> TRUE]

NewRequestNoParse(method, sqsURI, body) ==
    [err |-> FALSE,
     r   |-> [nil |-> FALSE, Method |-> method, URI |-> sqsURI, Body |-> body,
              ContentType |-> <<>>]]

\* http.NewRequest parses the URL it is given with url.Parse and fails if that
\* fails
NewRequest(method, sqsURI, body) ==
    LET p == URLParse(sqsURI)
    IN  IF ~p.ok THEN [err |-> TRUE, r |-> NoReq]
        ELSE [err |-> FALSE,
              r   |-> [nil |-> FALSE, Method |-> method, URI |-> sqsURI, Body |-> body,
                       ContentType |-> <<>>]]

SelectURIAlwaysQueue(s, isQueueRequest) ==
    [panic |-> FALSE, uri |-> generateSQSQueueURI(s)]

\* lines 70-73
SelectURI(s, isQueueRequest) ==
    IF isQueueRequest THEN [panic |-> FALSE, uri |-> generateSQSQueueURI(s)]
    ELSE generateSQSURI(s)

\* lines 90-95, with what the signer gave back kept beside the request:
\* Signature, and sigFailed when it could not parse the URL
Built(sig, nr) ==
    [panic     |-> FALSE,
     err       |-> nr.err,
     sigFailed |-> sig = <<>>,
     Signature |-> sig,
     r         |-> IF nr.err THEN NoReq
                   ELSE [nr.r EXCEPT
                           !.ContentType = <<"application/x-www-form-urlencoded">>]]

\* lines 88-90: the signature goes into the values, which become the body
Signed(sqsURI, uv0, sig) ==
    Built(sig, NewRequest("POST", sqsURI, Encode(Set(uv0, "Signature", sig))))

PreparedSignedBeforeMerge(s, sel, uv0) ==
    IF sel.panic THEN [panic |-> TRUE, err |-> FALSE, r |-> NoReq]
    ELSE Signed(sel.uri, uv0,
                GenerateSignature(sel.uri, "POST", s.AWSSecret, SubSeq(uv0, 1, 5)))

Prepared(s, sel, uv0) ==
    IF sel.panic THEN [panic |-> TRUE, err |-> FALSE, r |-> NoReq]
    ELSE Signed(sel.uri, uv0, GenerateSignature(sel.uri, "POST", s.AWSSecret, uv0))

\* lines 69-95.  panic: the call died in generateSQSURI; err: NewRequest
\* failed and makeSQSRequest returns (nil, err); otherwise r is the request
\* handed to client.Do
PrepareRequest(s, params, isQueueRequest, ord, now) ==
    Prepared(s, SelectURI(s, isQueueRequest), MergedValues(s, params, ord, now))

-----------------------------------------------------------------------------
(* encoding/xml: a response body is either not well-formed XML or a        *)
(* document, kept as the text found at each element path                   *)

MalformedDoc == [wf |-> FALSE, el |-> <<>>]

Doc(el) == [wf |-> TRUE, el |-> el]

\* a field whose path is absent from the document keeps its zero value
Field(doc, path) == IF path \in DOMAIN doc.el THEN doc.el[path] ELSE <<>>

NilVal == [nil |-> TRUE]

ErrorResponse(doc) ==
    [Type |-> Field(doc, "Error>Type"), Code |-> Field(doc, "Error>Code"),
     Message |-> Field(doc, "Error>Message")]

\* (er *ErrorResponse) String()
ErrorResponseString(er) ==
    "Type: " \o ToString(er.Type) \o ", Code: " \o ToString(er.Code)
    \o ", Message: " \o ToString(er.Message)

SendMessageResponse(doc) ==
    [nil |-> FALSE,
     MessageId  |-> Field(doc, "SendMessageResult>MessageId"),
     MessageMD5 |-> Field(doc, "SendMessageResult>MD5OfMessageBody"),
     RequestId  |-> Field(doc, "ResponseMetadata>RequestId")]

RecvMessageResponse(doc) ==
    [nil |-> FALSE,
     MessageId     |-> Field(doc, "ReceiveMessageResult>Message>MessageId"),
     MessageMD5    |-> Field(doc, "ReceiveMessageResult>Message>MD5OfBody"),
     MessageBody   |-> Field(doc, "ReceiveMessageResult>Message>Body"),
     ReceiptHandle |-> Field(doc, "ReceiveMessageResult>Message>ReceiptHandle"),
     RequestId     |-> Field(doc, "ResponseMetadata>RequestId")]

QueueURLResponse(doc) ==
    [nil |-> FALSE, QueueURL |-> Field(doc, "QueueUrl"),
     RequestId |-> Field(doc, "ResponseMetadata>RequestId")]

QueueListResponse(doc) ==
    [nil |-> FALSE, QueueURLs |-> Field(doc, "ListQueuesResult>QueueUrl"),
     RequestId |-> Field(doc, "ResponseMetadata>RequestId")]

BasicResponse(doc) ==
    [nil |-> FALSE, RequestId |-> Field(doc, "ResponseMetadata>RequestId")]

-----------------------------------------------------------------------------
(* errors                                                                  *)

NoErr == [nil |-> TRUE]

Err(type, text) == [nil |-> FALSE, type |-> type, text |-> text]

\* what client.Do returns when the round trip itself fails
TransportErr == Err("*url.Error", "Post: dial tcp: connection refused")

\* what http.NewRequest returns when the URL does not parse
ParseErr == Err("*url.Error", "parse: invalid URL escape")

\* what Decoder.Decode returns on a body that is not well-formed XML
DecodeErr == Err("*xml.SyntaxError", "XML syntax error")

\* what url.QueryUnescape returns on a malformed escape
EscapeErr == Err("url.EscapeError", "invalid URL escape")

EmptyQueueErr == Err("*errors.errorString", "No message to dequeue.")

\* http.StatusOK
StatusOK == 200

Statuses == {200, 201, 299, 300, 400}

Reason(code) ==
    CASE code = 200 -> "OK"
      [] code = 201 -> "Created"
      [] code = 300 -> "Multiple Choices"
      [] code = 400 -> "Bad Request"
      [] OTHER -> ""

\* resp.Status, the status line without the protocol version
StatusLine(code) == ToString(code) \o " " \o Reason(code)

StatusErr(code) == Err("*errors.errorString", StatusLine(code))

-----------------------------------------------------------------------------
(* sqs.go: makeSQSRequest after client.Do, and what each action method     *)
(* does with the (reader, err) it gets back                                *)

NilReader == [nil |-> TRUE]

Reader(doc) == [nil |-> FALSE, doc |-> doc]

IsSuccess2xx(code) == code >= 200 /\ code <= 299

\* line 104
IsSuccess(code) == code = StatusOK

\* lines 99-108; do is what client.Do returned: [err, StatusCode, Body]
AfterDo(do) ==
    IF ~do.err.nil THEN [reader |-> NilReader, err |-> do.err]
    ELSE IF IsSuccess(do.StatusCode) THEN [reader |-> Reader(do.Body), err |-> NoErr]
    ELSE [reader |-> Reader(do.Body), err |-> StatusErr(do.StatusCode)]

\* How a call ends.  val, err: what is returned; panic: the call died instead;
\* read: the body was given to a decoder; closed: the body was closed;
\* decoded: which struct the body was decoded into; logged: what went to the log
Outcome(val, err, read, closed, decoded) ==
    [panic |-> FALSE, val |-> val, err |-> err, read |-> read, closed |-> closed,
     decoded |-> decoded, logged |-> <<>>]

Panic ==
    [panic |-> TRUE, val |-> NilVal, err |-> NoErr, read |-> FALSE, closed |-> FALSE,
     decoded |-> "none", logged |-> <<>>]

\* xml.NewDecoder(reader).Decode(v) for the struct v each method allocates
Decoded(action, doc) ==
    CASE action = "SendMessage"   -> SendMessageResponse(doc)
      [] action = "DeleteMessage" -> BasicResponse(doc)
      [] action = "ListQueues"    -> QueueListResponse(doc)
      [] OTHER                    -> QueueURLResponse(doc)

\* the tail shared by SendSQSMessage, DeleteSQSMessage, QueueURL and ListQueues:
\* return on err, defer Close, Decode, return
DecodeTail(action, m) ==
    IF ~m.err.nil THEN Outcome(NilVal, m.err, FALSE, FALSE, "none")
    ELSE IF ~m.reader.doc.wf THEN Outcome(NilVal, DecodeErr, TRUE, TRUE, "success")
    ELSE Outcome(Decoded(action, m.reader.doc), NoErr, TRUE, TRUE, "success")

ReceiveTailNoEmptyCheck(m) ==
    IF ~m.err.nil THEN Outcome(NilVal, m.err, FALSE, FALSE, "none")
    ELSE IF ~m.reader.doc.wf THEN Outcome(NilVal, DecodeErr, TRUE, TRUE, "success")
    ELSE IF ~QueryUnescape(RecvMessageResponse(m.reader.doc).MessageBody).ok
    THEN Outcome(NilVal, EscapeErr, TRUE, TRUE, "success")
    ELSE Outcome([RecvMessageResponse(m.reader.doc) EXCEPT
                    !.MessageBody = QueryUnescape(@).s], NoErr, TRUE, TRUE, "success")

ReceiveTailNoUnescape(m) ==
    IF ~m.err.nil THEN Outcome(NilVal, m.err, FALSE, FALSE, "none")
    ELSE IF ~m.reader.doc.wf THEN Outcome(NilVal, DecodeErr, TRUE, TRUE, "success")
    ELSE IF RecvMessageResponse(m.reader.doc).MessageBody = <<>>
            /\ RecvMessageResponse(m.reader.doc).MessageMD5 = <<>>
    THEN Outcome(NilVal, EmptyQueueErr, TRUE, TRUE, "success")
    ELSE Outcome(RecvMessageResponse(m.reader.doc), NoErr, TRUE, TRUE, "success")

\* ReceiveSQSMessage, lines 158-179
ReceiveTail(m) ==
    IF ~m.err.nil THEN Outcome(NilVal, m.err, FALSE, FALSE, "none")
    ELSE IF ~m.reader.doc.wf THEN Outcome(NilVal, DecodeErr, TRUE, TRUE, "success")
    ELSE LET rmr == RecvMessageResponse(m.reader.doc)
             un  == QueryUnescape(rmr.MessageBody)
         IN  IF rmr.MessageBody = <<>> /\ rmr.MessageMD5 = <<>>
             THEN Outcome(NilVal, EmptyQueueErr, TRUE, TRUE, "success")
             ELSE IF ~un.ok THEN Outcome(NilVal, EscapeErr, TRUE, TRUE, "success")
             ELSE Outcome([rmr EXCEPT !.MessageBody = un.s], NoErr, TRUE, TRUE, "success")

\* CreateQueue, lines 255-268: on err the reader is decoded into an
\* ErrorResponse, whose decoding error is dropped, and logged; a nil reader
\* makes that Decode panic; no path closes the body
CreateQueueTail(m) ==
    IF ~m.err.nil THEN
        IF m.reader.nil THEN Panic
        ELSE [Outcome(NilVal, m.err, TRUE, FALSE, "error") EXCEPT
                !.logged = <<ErrorResponseString(ErrorResponse(m.reader.doc))>>]
    ELSE IF ~m.reader.doc.wf THEN Outcome(NilVal, DecodeErr, TRUE, FALSE, "success")
    ELSE Outcome(QueueURLResponse(m.reader.doc), NoErr, TRUE, FALSE, "success")

ActionTail(action, m) ==
    CASE action = "ReceiveMessage" -> ReceiveTail(m)
      [] action = "CreateQueue"    -> CreateQueueTail(m)
      [] OTHER                     -> DecodeTail(action, m)

-----------------------------------------------------------------------------
(* The service, as far as the client can observe it: it form-decodes the   *)
(* POST body once, keeps the message SendMessage gave it last, and hands   *)
(* it to ReceiveMessage until DeleteMessage removes it.                    *)

IndexOf(s, t) ==
    IF \E i \in 1..Len(s) : s[i] = t
    THEN CHOOSE i \in 1..Len(s) : s[i] = t /\ \A j \in 1..(i - 1) : s[j] # t
    ELSE 0

RECURSIVE Split(_, _)
Split(s, sep) ==
    LET i == IndexOf(s, sep)
    IN  IF i = 0 THEN <<s>>
        ELSE <<SubSeq(s, 1, i - 1)>> \o Split(SubSeq(s, i + 1, Len(s)), sep)

\* the value of form field key in an application/x-www-form-urlencoded body
FormValue(body, key) ==
    LET items == Split(body, "&")
        hit(i) == LET j == IndexOf(items[i], "=")
                  IN  j > 0 /\ QueryUnescape(SubSeq(items[i], 1, j - 1)).s = <<key>>
    IN  IF \E i \in 1..Len(items) : hit(i)
        THEN LET i == CHOOSE n \in 1..Len(items) : hit(n)
                 j == IndexOf(items[i], "=")
             IN  QueryUnescape(SubSeq(items[i], j + 1, Len(items[i]))).s
        ELSE <<>>

FormKeys(body) ==
    LET items == Split(body, "&")
    IN  {QueryUnescape(SubSeq(items[i], 1, IndexOf(items[i], "=") - 1)).s[1] :
            i \in {n \in 1..Len(items) : IndexOf(items[n], "=") > 1}}

Meta == "ResponseMetadata>RequestId" :> <<"req-1">>

ErrorDoc ==
    Doc(("Error>Type" :> <<"Sender">>) @@ ("Error>Code" :> <<"InvalidParameterValue">>)
        @@ ("Error>Message" :> <<"bad">>) @@ ("RequestId" :> <<"req-1">>))

NoMessage == [nil |-> TRUE]

\* the document a served request is answered with, given the message m held
ResultDoc(action, m) ==
    CASE action = "SendMessage" ->
            Doc(("SendMessageResult>MessageId" :> <<"m-1">>)
                @@ ("SendMessageResult>MD5OfMessageBody" :> <<"md5">>) @@ Meta)
      [] action = "ReceiveMessage" ->
            IF m.nil THEN Doc(Meta)
            ELSE Doc(("ReceiveMessageResult>Message>MessageId" :> <<"m-1">>)
                     @@ ("ReceiveMessageResult>Message>MD5OfBody" :> <<"md5">>)
                     @@ ("ReceiveMessageResult>Message>Body" :> m.body)
                     @@ ("ReceiveMessageResult>Message>ReceiptHandle" :> <<"rh-1">>)
                     @@ Meta)
      [] action = "DeleteMessage" -> Doc(Meta)
      [] action = "ListQueues" -> Doc(("ListQueuesResult>QueueUrl" :> <<"url-1">>) @@ Meta)
      [] OTHER -> Doc(("QueueUrl" :> <<"url-1">>) @@ Meta)

\* the message held after a served request with POST body body; text is the
\* text the sender was given, kept beside the stored body to compare with
Served(action, body, text, m) ==
    CASE action = "SendMessage" ->
            [nil |-> FALSE, body |-> FormValue(body, "MessageBody"), text |-> text]
      [] action = "DeleteMessage" -> NoMessage
      [] OTHER -> m

-----------------------------------------------------------------------------
(* State                                                                   *)

VARIABLES
    sqsReq,     \* the *SQSRequest every method is called on; never written
    call,       \* per caller: the method call it is in
    stored,     \* the message the service holds
    crashed     \* the process died of a panic

vars == <<sqsReq, call, stored, crashed>>

Callers == {"c1"}

RawChars == {"x", " ", "+", "%"}

\* the message texts a caller may send
Text == UNION {[1..n -> RawChars] : n \in 0..MaxLen}

\* the texts the callers send: every text when one caller runs alone, two of
\* them when several callers run at once
Messages == IF Cardinality(DOMAIN call) > 1 THEN {<<"x">>, <<"+", "%">>} ELSE Text

AttrNames == {"VisibilityTimeout", "DelaySeconds", "MaximumMessageSize"}

AttrSetting(name) ==
    CASE name = "VisibilityTimeout" -> <<"40">>
      [] name = "DelaySeconds" -> <<"60">>
      [] OTHER -> <<"1024">>

\* the attribute maps a caller may hand to CreateQueue
Options ==
    {[name \in S |-> AttrSetting(name)] :
        S \in {T \in SUBSET AttrNames : Cardinality(T) <= MaxAttrs}}

QueueActions == {"SendMessage", "ReceiveMessage", "DeleteMessage"}

AdminActions == {"CreateQueue", "ListQueues", "GetQueueUrl"}

NoDo == [nil |-> TRUE]

NoOut == Outcome(NilVal, NoErr, FALSE, FALSE, "none")

Idle ==
    [pc |-> "idle", action |-> "", message |-> <<>>, options |-> <<>>, params |-> <<>>,
     req |-> NoReq, sigFailed |-> FALSE, Signature |-> <<>>,
     sends |-> 0, do |-> NoDo, out |-> NoOut]

Init ==
    /\ sqsReq \in SQSRequest
    /\ call = [c \in Callers |-> Idle]
    /\ stored = NoMessage
    /\ crashed = FALSE

\* the call of caller c ends: it returns out.val, out.err or dies
Return(c, action, sigFailed, sends, do, out) ==
    /\ call' = [call EXCEPT ![c] =
                  [Idle EXCEPT !.pc = IF out.panic THEN "panicked" ELSE "returned",
                               !.action = action,
                               !.sigFailed = sigFailed,
                               !.sends = sends,
                               !.do = do,
                               !.out = out]]
    /\ crashed' = out.panic

Started(c, action, message, options, params, pr) ==
    IF pr.panic
    THEN Return(c, action, FALSE, 0, NoDo, Panic)
    ELSE IF pr.err
    THEN Return(c, action, pr.sigFailed, 0, NoDo,
                ActionTail(action, [reader |-> NilReader, err |-> ParseErr]))
    ELSE /\ call' = [call EXCEPT ![c] =
                       [Idle EXCEPT !.pc = "inDo",
                                    !.action = action,
                                    !.message = message,
                                    !.options = options,
                                    !.params = params,
                                    !.req = pr.r,
                                    !.sigFailed = pr.sigFailed,
                                    !.Signature = pr.Signature,
                                    !.sends = 1]]
         /\ crashed' = FALSE

\* A method call from its entry to the point where client.Do is entered: the
\* parameters are merged, signed and encoded and the request is built.  The
\* call may die (generateSQSURI on a URL that does not parse), may return at
\* once (NewRequest failed), or is left waiting in client.Do.
Start(c, action, message, options, params, isQueueRequest) ==
    /\ ~crashed
    /\ call[c].pc = "idle"
    /\ \E ord \in MapRange(DOMAIN params), now \in Times :
         Started(c, action, message, options, params,
                 PrepareRequest(sqsReq, params, isQueueRequest, ord, now))
    /\ UNCHANGED <<sqsReq, stored>>

SendSQSMessageOnce(c) ==
    \E message \in Messages :
        Start(c, "SendMessage", message, <<>>,
              ("Action" :> <<"SendMessage">>) @@ ("MessageBody" :> message), TRUE)

SendSQSMessage(c) ==
    \E message \in Messages :
        Start(c, "SendMessage", message, <<>>,
              ("Action" :> <<"SendMessage">>) @@ ("MessageBody" :> QueryEscape(message)),
              TRUE)

ReceiveSQSMessage(c) ==
    Start(c, "ReceiveMessage", <<>>, <<>>, "Action" :> <<"ReceiveMessage">>, TRUE)

DeleteSQSMessage(c) ==
    \E handle \in {<<"rh-1">>} :
        Start(c, "DeleteMessage", <<>>, <<>>,
              ("Action" :> <<"DeleteMessage">>) @@ ("ReceiptHandle" :> handle), TRUE)

QueueURL(c) ==
    Start(c, "GetQueueUrl", <<>>, <<>>,
          ("Action" :> <<"GetQueueUrl">>) @@ ("QueueName" :> sqsReq.QueueName), FALSE)

ListQueues(c) ==
    \E prefix \in {<<>>, <<"jo">>} :
        Start(c, "ListQueues", <<>>, <<>>,
              ("Action" :> <<"ListQueues">>) @@ ("QueueNamePrefix" :> prefix), FALSE)

AttrName(count) == "Attribute." \o ToString(count) \o ".Name"

AttrValue(count) == "Attribute." \o ToString(count) \o ".Value"

\* lines 248-253: the loop over options, visiting the names in the order ord
RECURSIVE AddAttributes(_, _, _, _)
AddAttributes(params, options, ord, count) ==
    IF ord = <<>> THEN params
    ELSE AddAttributes((AttrName(count) :> <<Head(ord)>>)
                       @@ (AttrValue(count) :> options[Head(ord)]) @@ params,
                       options, Tail(ord), count + 1)

CreateQueueParamsFromZero(queueName, options, ord) ==
    AddAttributes(("Action" :> <<"CreateQueue">>) @@ ("QueueName" :> queueName),
                  options, ord, 0)

\* lines 243-253
CreateQueueParams(queueName, options, ord) ==
    AddAttributes(("Action" :> <<"CreateQueue">>) @@ ("QueueName" :> queueName),
                  options, ord, 1)

CreateQueue(c) ==
    \E queueName \in {<<"newq">>}, options \in Options :
        \E ord \in MapRange(DOMAIN options) :
            Start(c, "CreateQueue", <<>>, options,
                  CreateQueueParams(queueName, options, ord), FALSE)

\* what client.Do returns when the service answers; kind and held record
\* what the answer was made of: the kind of body and the message held then
Answer(st, kind, body, m) ==
    [nil |-> FALSE, err |-> NoErr, StatusCode |-> st, kind |-> kind, Body |-> body,
     held |-> m]

\* what client.Do may return for a request the service sees as action served
Responses(served, m) ==
    {[nil |-> FALSE, err |-> TransportErr, StatusCode |-> 0, kind |-> "none",
      Body |-> MalformedDoc, held |-> NoMessage]}
    \cup {Answer(st, "result", ResultDoc(served, m), m) : st \in Statuses}
    \cup {Answer(st, "error", ErrorDoc, NoMessage) : st \in Statuses}
    \cup {Answer(st, "malformed", MalformedDoc, NoMessage) : st \in Statuses}

ClientDoRetry(c) ==
    /\ ~crashed
    /\ call[c].pc = "inDo"
    /\ \E served \in {FormValue(call[c].req.Body, "Action")[1]} :
         \E do \in Responses(served, stored) :
            IF ~do.err.nil /\ call[c].sends < 2
            THEN /\ call' = [call EXCEPT ![c].sends = @ + 1]
                 /\ UNCHANGED <<stored, crashed>>
            ELSE /\ stored' = IF do.kind = "result"
                              THEN Served(served, call[c].req.Body, call[c].message, stored)
                              ELSE stored
                 /\ Return(c, call[c].action, call[c].sigFailed, call[c].sends, do,
                           ActionTail(call[c].action, AfterDo(do)))
    /\ UNCHANGED sqsReq

\* client.Do returns and the method runs to its end.  The round trip fails, or
\* the service answers with a status and a body: the document of the served
\* action, an <ErrorResponse>, or something that is not XML.
ClientDo(c) ==
    /\ ~crashed
    /\ call[c].pc = "inDo"
    /\ \E served \in {FormValue(call[c].req.Body, "Action")[1]} :
         \E do \in Responses(served, stored) :
            /\ stored' = IF do.kind = "result"
                         THEN Served(served, call[c].req.Body, call[c].message, stored)
                         ELSE stored
            /\ Return(c, call[c].action, call[c].sigFailed, call[c].sends, do,
                      ActionTail(call[c].action, AfterDo(do)))
    /\ UNCHANGED sqsReq

\* the caller drops the result and is free to call again
NextCall(c) ==
    /\ ~crashed
    /\ call[c].pc = "returned"
    /\ call' = [call EXCEPT ![c] = Idle]
    /\ UNCHANGED <<sqsReq, stored, crashed>>

Next ==
    \/ \E c \in DOMAIN call : SendSQSMessage(c)
    \/ \E c \in DOMAIN call : ReceiveSQSMessage(c)
    \/ \E c \in DOMAIN call : DeleteSQSMessage(c)
    \/ \E c \in DOMAIN call : QueueURL(c)
    \/ \E c \in DOMAIN call : ListQueues(c)
    \/ \E c \in DOMAIN call : CreateQueue(c)
    \/ \E c \in DOMAIN call : ClientDo(c)
    \/ \E c \in DOMAIN call : NextCall(c)

Spec == Init /\ [][Next]_vars

\* two goroutines call methods on the same *SQSRequest at once
Goroutines == {"g1", "g2"}

InitConcurrent ==
    /\ sqsReq \in SQSRequest
    /\ call = [c \in Goroutines |-> Idle]
    /\ stored = NoMessage
    /\ crashed = FALSE

SpecConcurrent == InitConcurrent /\ [][Next]_vars

-----------------------------------------------------------------------------
(* Reading the bytes of a POST body                                        *)

\* the "k=v" items of a form body
Items(body) == IF body = <<>> THEN <<>> ELSE Split(body, "&")

ItemKey(item) == SubSeq(item, 1, IndexOf(item, "=") - 1)

ItemValue(item) == SubSeq(item, IndexOf(item, "=") + 1, Len(item))

\* the value of parameter key as it stands in the body, not decoded
RawValue(body, key) ==
    LET items == Items(body)
    IN  IF \E i \in 1..Len(items) : ItemKey(items[i]) = <<key>>
        THEN ItemValue(items[CHOOSE i \in 1..Len(items) : ItemKey(items[i]) = <<key>>])
        ELSE <<>>

RECURSIVE JoinItems(_)
JoinItems(items) ==
    IF items = <<>> THEN <<>>
    ELSE Head(items) \o (IF Len(items) > 1 THEN <<"&">> ELSE <<>>) \o JoinItems(Tail(items))

\* the body with its Signature item taken out
Unsigned(body) ==
    JoinItems(SelectSeq(Items(body), LAMBDA item : ItemKey(item) # <<"Signature">>))

\* the endpoints of section 4.2 for the client configuration s
QueueEndpoint(s) ==
    [scheme |-> "https",
     host   |-> <<"sqs.">> \o s.RegionId \o <<".amazonaws.com">>,
     path   |-> <<"/">> \o s.UUID \o <<"/">> \o s.QueueName \o <<"/">>]

AccountEndpoint(s) == [QueueEndpoint(s) EXCEPT !.path = <<"/">>]

InDo(c) == call[c].pc = "inDo"

Returned(c) == call[c].pc = "returned"

\* client.Do gave caller c a response
Answered(c) == ~call[c].do.nil /\ call[c].do.err.nil

-----------------------------------------------------------------------------
(* Claims                                                                  *)

\* C1: every request handed to client.Do carries the action of the method
\* that built it, goes to the queue endpoint (path /<accountId>/<queueName>/)
\* if that action is SendMessage, ReceiveMessage or DeleteMessage and to the
\* account endpoint (same scheme and host, path /) if it is CreateQueue,
\* ListQueues or GetQueueUrl, and is signed over the host and path of that
\* same endpoint.
C1_EndpointByActionClass ==
    \A c \in DOMAIN call :
        InDo(c) =>
            LET r  == call[c].req
                ep == IF call[c].action \in QueueActions THEN QueueEndpoint(sqsReq)
                      ELSE AccountEndpoint(sqsReq)
            IN  /\ call[c].action \in QueueActions \cup AdminActions
                /\ FormValue(r.Body, "Action") = <<call[c].action>>
                /\ r.URI = ep
                /\ call[c].Signature =
                     HmacBase64(sqsReq.AWSSecret,
                                <<"POST", "\n">> \o ep.host \o <<"\n">> \o ep.path
                                \o <<"\n">> \o Unsigned(r.Body))

C1_Witness ==
    \E c \in DOMAIN call :
        /\ InDo(c)
        /\ call[c].action = "ListQueues"
        /\ call[c].req.URI.path = <<"/">>

\* C2: no request handed to client.Do has an empty or missing Signature
\* parameter, and a call in which the signer could not parse the endpoint URL
\* has returned an error and no result without sending anything.
C2_NoUnsignedRequest ==
    \A c \in DOMAIN call :
        /\ InDo(c) =>
              /\ "Signature" \in FormKeys(call[c].req.Body)
              /\ FormValue(call[c].req.Body, "Signature") # <<>>
        /\ call[c].sigFailed =>
              /\ Returned(c)
              /\ call[c].sends = 0
              /\ call[c].do.nil
              /\ ~call[c].out.err.nil
              /\ call[c].out.val.nil

C2_Witness ==
    \E c \in DOMAIN call :
        /\ call[c].sigFailed
        /\ Returned(c)
        /\ call[c].action = "SendMessage"
        /\ call[c].out.err = ParseErr

\* ReceiveMessage got status 200 and a body that parses as XML and holds
\* neither a message body nor an MD5 digest
EmptyAnswer(c) ==
    /\ Returned(c)
    /\ call[c].action = "ReceiveMessage"
    /\ Answered(c)
    /\ call[c].do.StatusCode = 200
    /\ call[c].do.Body.wf
    /\ Field(call[c].do.Body, "ReceiveMessageResult>Message>Body") = <<>>
    /\ Field(call[c].do.Body, "ReceiveMessageResult>Message>MD5OfBody") = <<>>

\* C3, as claimed: on such an answer ReceiveMessage reports a normal result
\* that is not an error (and is no populated message struct).
C3_EmptyQueueIsNoError ==
    \A c \in DOMAIN call :
        EmptyAnswer(c) => call[c].out.err.nil /\ call[c].out.val.nil

\* C3, amended: on such an answer ReceiveMessage returns no message struct
\* and the error "No message to dequeue."; no other outcome of any call
\* returns that error, so its text tells it apart from a decode error, a
\* transport error and a protocol error.
C3_EmptyQueueIsDistinctError ==
    \A c \in DOMAIN call :
        /\ EmptyAnswer(c) =>
              /\ call[c].out.val.nil
              /\ call[c].out.err = Err("*errors.errorString", "No message to dequeue.")
        /\ (Returned(c) /\ ~call[c].out.err.nil
            /\ call[c].out.err.text = "No message to dequeue.") => EmptyAnswer(c)
        /\ (Returned(c) /\ ~call[c].out.err.nil /\ ~EmptyAnswer(c)) =>
              call[c].out.err \in {TransportErr, DecodeErr, EscapeErr, ParseErr}
                                  \cup {StatusErr(st) : st \in Statuses}

C3_Witness ==
    \E c \in DOMAIN call :
        /\ EmptyAnswer(c)
        /\ call[c].do.kind = "result"
        /\ call[c].out.err = EmptyQueueErr

\* the service answered with a status outside 200..299 and an <ErrorResponse>
\* body that parses
ErrorAnswer(c) ==
    /\ call[c].pc \in {"returned", "panicked"}
    /\ Answered(c)
    /\ ~(call[c].do.StatusCode >= 200 /\ call[c].do.StatusCode <= 299)
    /\ call[c].do.Body.wf
    /\ "Error>Type" \in DOMAIN call[c].do.Body.el

\* C4: on such an answer the call has read the error body and the error it
\* returns carries the type, code and message decoded from it.
C4_ErrorBodyCarried ==
    \A c \in DOMAIN call :
        ErrorAnswer(c) =>
            /\ Returned(c)
            /\ call[c].out.read
            /\ ~call[c].out.err.nil
            /\ call[c].out.err.text =
                 "Type: " \o ToString(call[c].do.Body.el["Error>Type"])
                 \o ", Code: " \o ToString(call[c].do.Body.el["Error>Code"])
                 \o ", Message: " \o ToString(call[c].do.Body.el["Error>Message"])

\* C5, as claimed: a response goes to the success decoder if and only if its
\* status lies in 200..299, and is treated as a protocol error if and only if
\* it does not.
C5_SuccessIff2xx ==
    \A c \in DOMAIN call :
        (Returned(c) /\ Answered(c)) =>
            LET st == call[c].do.StatusCode
            IN  /\ (call[c].out.decoded = "success") <=> (st >= 200 /\ st <= 299)
                /\ (call[c].out.err = StatusErr(st)) <=> ~(st >= 200 /\ st <= 299)

\* C5, amended: a response goes to the success decoder if and only if its
\* status is exactly 200; every other status, 201..299 included, and only
\* such a status, is treated as a protocol error: the call returns the status
\* line as its error and no result.
C5_SuccessIff200 ==
    \A c \in DOMAIN call :
        (Returned(c) /\ Answered(c)) =>
            LET st == call[c].do.StatusCode
            IN  /\ (call[c].out.decoded = "success") <=> (st = 200)
                /\ (call[c].out.err = StatusErr(st)) <=> (st # 200)
                /\ (st # 200) => call[c].out.val.nil

C5_Witness ==
    \E c \in DOMAIN call :
        /\ Returned(c)
        /\ Answered(c)
        /\ call[c].do.StatusCode = 201
        /\ call[c].do.kind = "result"
        /\ call[c].out.decoded = "none"
        /\ call[c].out.err.text = "201 Created"

\* C6: once client.Do has failed, the call has returned that transport error
\* and no result, has not touched a response body, and nothing has crashed.
C6_TransportErrorReturned ==
    \A c \in DOMAIN call :
        (~call[c].do.nil /\ ~call[c].do.err.nil) =>
            /\ Returned(c)
            /\ call[c].out.err = call[c].do.err
            /\ call[c].out.val.nil
            /\ ~call[c].out.read
            /\ ~call[c].out.panic
            /\ ~crashed

\* ReceiveMessage was handed, with status 200, a message the service held
\* from a delivered SendMessage
Handed(c) ==
    /\ Returned(c)
    /\ call[c].action = "ReceiveMessage"
    /\ Answered(c)
    /\ call[c].do.StatusCode = 200
    /\ call[c].do.kind = "result"
    /\ ~call[c].do.held.nil

\* C7: when the service hands ReceiveMessage the body it stored for a
\* delivered SendMessage(m) after decoding the form once, ReceiveMessage
\* returns a message whose body is m.
C7_RoundTrip ==
    \A c \in DOMAIN call :
        Handed(c) =>
            /\ call[c].out.err.nil
            /\ ~call[c].out.val.nil
            /\ call[c].out.val.MessageBody = call[c].do.held.text

C7_Witness ==
    \E c \in DOMAIN call :
        /\ Handed(c)
        /\ call[c].do.held.text = <<"+", "%">>
        /\ call[c].do.held.body = <<"%", "2", "B", "%", "2", "5">>
        /\ call[c].out.val.MessageBody = <<"+", "%">>

SendInDo(c) == InDo(c) /\ call[c].action = "SendMessage"

\* C8, as claimed: the MessageBody item of the POST body is the caller's text
\* percent-encoded exactly once.
C8_EncodedOnce ==
    \A c \in DOMAIN call :
        SendInDo(c) =>
            RawValue(call[c].req.Body, "MessageBody") = escape(call[c].message, "query")

\* C8, amended: the caller's text is percent-encoded twice on its way into
\* the POST body, once by SendMessage and once more when the parameters are
\* form-encoded, so that the MessageBody item is an escape of an escape and
\* decoding the form once yields the text escaped once; the body
\* ReceiveMessage returns is the body of the response percent-decoded exactly
\* once.
C8_EncodedTwiceDecodedOnce ==
    \A c \in DOMAIN call :
        /\ SendInDo(c) =>
              /\ RawValue(call[c].req.Body, "MessageBody")
                   = escape(escape(call[c].message, "query"), "query")
              /\ unescape(RawValue(call[c].req.Body, "MessageBody"), "query")
                   = [ok |-> TRUE, s |-> escape(call[c].message, "query")]
        /\ (Returned(c) /\ call[c].action = "ReceiveMessage" /\ ~call[c].out.val.nil) =>
              unescape(Field(call[c].do.Body, "ReceiveMessageResult>Message>Body"), "query")
                = [ok |-> TRUE, s |-> call[c].out.val.MessageBody]

C8_Witness ==
    \E c \in DOMAIN call :
        /\ SendInDo(c)
        /\ call[c].message = <<"x", " ">>
        /\ call[c].params["MessageBody"] = <<"x", "+">>
        /\ RawValue(call[c].req.Body, "MessageBody") = <<"x", "%", "2", "B">>

\* the parameter names of the items of a query string, in their order
QueryKeys(query) == [i \in 1..Len(Items(query)) |-> ItemKey(Items(query)[i])[1]]

\* C9: for every order in which the parameters of a request in flight can be
\* inserted into the values, the string that is signed is the method, the
\* host, the path and the query string, joined by newlines in that order,
\* where the query string lists every parameter once, in ascending order of
\* the keys, and is the one the request carries; and the signature computed
\* is the one the request carries.
C9_SignatureOrderIndependent ==
    \A c \in DOMAIN call :
        InDo(c) =>
            \E r \in {call[c].req} :
            \E query \in {Unsigned(call[c].req.Body)} :
            \E keys \in {QueryKeys(Unsigned(call[c].req.Body))} :
            \E now \in {FormValue(call[c].req.Body, "Timestamp")} :
                /\ \A i \in 1..(Len(keys) - 1) : KeyRank(keys[i]) < KeyRank(keys[i + 1])
                /\ call[c].Signature
                     = HmacBase64(sqsReq.AWSSecret,
                                  <<"POST", "\n">> \o r.URI.host \o <<"\n">> \o r.URI.path
                                  \o <<"\n">> \o query)
                /\ \A ord \in MapRange(DOMAIN call[c].params) :
                      \E uv \in {MergedValues(sqsReq, call[c].params, ord, now)} :
                          /\ {uv[i].k : i \in 1..Len(uv)} = {keys[i] : i \in 1..Len(keys)}
                          /\ GenerateSignature(r.URI, r.Method, sqsReq.AWSSecret, uv)
                               = call[c].Signature

C9_Witness ==
    \E c \in DOMAIN call :
        /\ InDo(c)
        /\ call[c].action = "CreateQueue"
        /\ Cardinality(DOMAIN call[c].params) = 2 + 2 * MaxAttrs
        /\ Cardinality(MapRange(DOMAIN call[c].params)) >= 2

FixedKeys ==
    {"AWSAccessKeyId", "SignatureVersion", "SignatureMethod", "Version", "Timestamp",
     "Signature"}

\* C10: a CreateQueue request for n attributes carries, besides Action,
\* QueueName and the fields every request carries, exactly the parameters
\* Attribute.i.Name and Attribute.i.Value for i in 1..n; the pair with index
\* i holds the name and the value of one attribute of the caller's map, and
\* every attribute of the map is in exactly one pair.
C10_AttributePairs ==
    \A c \in DOMAIN call :
        (InDo(c) /\ call[c].action = "CreateQueue") =>
            LET body == call[c].req.Body
                opts == call[c].options
                n    == Cardinality(DOMAIN opts)
                nm(i) == "Attribute." \o ToString(i) \o ".Name"
                vl(i) == "Attribute." \o ToString(i) \o ".Value"
            IN  /\ FormKeys(body) \ (FixedKeys \cup {"Action", "QueueName"})
                     = {nm(i) : i \in 1..n} \cup {vl(i) : i \in 1..n}
                /\ Len(Items(body)) = Cardinality(FormKeys(body))
                /\ \A i \in 1..n :
                      \E name \in DOMAIN opts :
                          /\ FormValue(body, nm(i)) = <<name>>
                          /\ FormValue(body, vl(i)) = opts[name]
                /\ \A name \in DOMAIN opts :
                      Cardinality({i \in 1..n : FormValue(body, nm(i)) = <<name>>}) = 1

C10_Witness ==
    \E c \in DOMAIN call :
        /\ InDo(c)
        /\ call[c].action = "CreateQueue"
        /\ Cardinality(DOMAIN call[c].options) = MaxAttrs
        /\ FormValue(call[c].req.Body, "Attribute.2.Name") = <<"VisibilityTimeout">>
        /\ FormValue(call[c].req.Body, "Attribute.2.Value") = <<"40">>

\* the call of caller c is over: it returned or it died
Ended(c) == call[c].pc \in {"returned", "panicked"}

OwnRequest(c) ==
    \E ord \in MapRange(DOMAIN call[c].params) :
        call[c].req = PrepareRequest(sqsReq, call[c].params,
                                     call[c].action \in QueueActions, ord,
                                     FormValue(call[c].req.Body, "Timestamp")).r

\* the result of the call that is over is made of the answer to its own
\* request only
OwnResult(c) == call[c].out = ActionTail(call[c].action, AfterDo(call[c].do))

\* C12: calls running at once on the same configuration are independent:
\* the request of each is what it would send alone, the result of each is
\* what it would return alone for the answer it got, and a call in flight is
\* never cut off by what another call does, so that it runs to its result as
\* it would alone.
C12_CallsIndependent ==
    \A c \in DOMAIN call :
        /\ InDo(c) => OwnRequest(c)
        /\ (Ended(c) /\ ~call[c].do.nil) => OwnResult(c)
        /\ InDo(c) => ~crashed

\* the values signed for the request in flight of caller c, for the order
\* ord of the iteration over its parameters
SignedValues(c, ord) ==
    MergedValues(sqsReq, call[c].params, ord, FormValue(call[c].req.Body, "Timestamp"))

\* C13: in every request in flight the Signature parameter is the signature
\* computed over the endpoint the request is sent to and over the merged
\* values, that is the fixed fields with every parameter of the caller set
\* over them; the parameters of the POST body are the signed ones, with the
\* values that were signed, and Signature, which occurs once, holds the
\* computed signature and is not empty.
C13_SignedAfterMergeSentAsSigned ==
    \A c \in DOMAIN call :
        InDo(c) =>
            \E body \in {call[c].req.Body} :
            \E ord \in MapRange(DOMAIN call[c].params) :
            \E uv \in {SignedValues(c, ord)} :
                /\ \A k \in DOMAIN call[c].params : Get(uv, k) = call[c].params[k]
                /\ \A k \in FixedKeys \ ({"Signature"} \cup DOMAIN call[c].params) :
                      HasKey(uv, k) /\ Get(uv, k) = FormValue(body, k)
                /\ GenerateSignature(call[c].req.URI, call[c].req.Method,
                                     sqsReq.AWSSecret, uv) = call[c].Signature
                /\ FormKeys(body) = {uv[i].k : i \in 1..Len(uv)} \cup {"Signature"}
                /\ Len(Items(body)) = Len(uv) + 1
                /\ \A i \in 1..Len(uv) : FormValue(body, uv[i].k) = uv[i].v
                /\ FormValue(body, "Signature") = call[c].Signature
                /\ call[c].Signature # <<>>

C13_Witness ==
    \E c \in DOMAIN call :
        /\ InDo(c)
        /\ call[c].action = "CreateQueue"
        /\ call[c].req.URI.path = <<"/">>
        /\ Cardinality(DOMAIN call[c].options) = 1
        /\ Cardinality(FormKeys(call[c].req.Body)) = 10
        /\ FormValue(call[c].req.Body, "Signature") = call[c].Signature

\* the call of caller c is over and client.Do had given it a response
GotResponse(c) == Ended(c) /\ ~call[c].do.nil /\ call[c].do.err.nil

\* C14: when a call that got a response is over, the body of the response
\* has been closed, whatever the status and whether or not the body
\* decoded.
C14_BodyClosed ==
    \A c \in DOMAIN call : GotResponse(c) => call[c].out.closed

====
